---- MODULE Spec2Model ----
(***************************************************************************)
(* A model of the google-trends client: the two-phase explore -> fetch     *)
(* protocol of TrendsClient (src/src/client.rs) with its single cookie     *)
(* retry, prefix-stripping decoder, widget selection and payload mutators. *)
(***************************************************************************)
EXTENDS Integers, Sequences, FiniteSets, TLC

VARIABLES
    pc,         \* "idle" | "await1" | "await2" | "done": position of the one call in flight
    op,         \* "none" | "interest_by_time" | "interest_by_region" | "run_with_retry" | "get_request"
    args,       \* the arguments of the public operation
    stage,      \* "none" | "explore" | "fetch" | "bare": who called run_with_retry
    req_copy,   \* run_with_retry's copy of the request (client.rs:158-159)
    sent,       \* every request handed to client.execute, in order, with its stage
    resps,      \* the responses received by the current run_with_retry call, in order
    explored,   \* outcome of the explore stage: "none" | "ok" | "failed"
    item,       \* the descriptor returned by explore, after the mutations
    selected,   \* the descriptor as explore returned it, before the mutations
    result,     \* what the operation returned to its caller ("none" while running)
    probe,      \* a direct call of a pure function: its inputs and its output
    calls,      \* operations running concurrently on one client: a record like Cur each
    jar         \* the cookies the shared reqwest::Client keeps between requests

vars ==
    <<pc, op, args, stage, req_copy, sent, resps, explored, item, selected, result, probe,
      calls, jar>>

-----------------------------------------------------------------------------
(* Bounds of the model. *)

MaxCookieLen == 2     \* longest Set-Cookie text, in characters
MaxGuard == 6         \* longest run of guard characters in front of a body
MaxWidgets == 2       \* longest widgets list of an explore response
MaxEntries == 2       \* longest entries list of a widget-fetch response

(* Program constants. *)

ExplorePrefix == 4    \* &body[4..] in explore
QueryPrefix == 5      \* &body[5..] in query

-----------------------------------------------------------------------------
(* Small helpers. *)

RECURSIVE SeqsUpTo(_, _)
SeqsUpTo(S, n) ==
    IF n = 0 THEN {<<>>}
    ELSE LET shorter == SeqsUpTo(S, n - 1)
         IN shorter \cup {Append(s, x) : s \in {t \in shorter : Len(t) = n - 1}, x \in S}

Repeat(x, n) == [i \in 1..n |-> x]

-----------------------------------------------------------------------------
(* Header values.  A header is absent, or present with bytes that are      *)
(* visible ASCII (text = TRUE, chars its characters) or not (text = FALSE).*)

NoHeader == [present |-> FALSE, text |-> FALSE, chars |-> <<>>]
TextHeader(cs) == [present |-> TRUE, text |-> TRUE, chars |-> cs]
OpaqueHeader == [present |-> TRUE, text |-> FALSE, chars |-> <<>>]

CookieChars == {"s", ";"}

\* str.split(';').next(): the text before the first ';' (all of it when there is none)
RECURSIVE FirstSegment(_)
FirstSegment(cs) ==
    IF cs = <<>> \/ Head(cs) = ";" THEN <<>>
    ELSE <<Head(cs)>> \o FirstSegment(Tail(cs))

\* resp.headers().get("set-cookie").and_then(to_str().ok()).and_then(split(';').next())
CookieOf(resp) ==
    IF resp.setCookie.present /\ resp.setCookie.text
    THEN [some |-> TRUE, val |-> FirstSegment(resp.setCookie.chars)]
    ELSE [some |-> FALSE, val |-> <<>>]

-----------------------------------------------------------------------------
(* JSON leaves and the opaque request payload of a descriptor.             *)

Absent == [t |-> "absent", s |-> "", n |-> 0]
JNull == [t |-> "null", s |-> "", n |-> 0]
JStr(x) == [t |-> "str", s |-> x, n |-> 0]
JNum(x) == [t |-> "num", s |-> "", n |-> x]
JBool(b) == [t |-> "bool", s |-> IF b THEN "true" ELSE "false", n |-> 0]

NoOptions == [kind |-> "absent", property |-> Absent, category |-> Absent, extra |-> Absent]
\* kind: "null" | "scalar" (string, number, bool, array) | "obj"
Payload(k, res, low, ex, ro) ==
    [kind |-> k, resolution |-> res, includeLowSearchVolumeGeos |-> low,
     extra |-> ex, requestOptions |-> ro]
NullPayload == Payload("null", Absent, Absent, Absent, NoOptions)
ScalarPayload == Payload("scalar", Absent, Absent, Absent, NoOptions)

IndexablePayloads == {"null", "obj"}

\* serde_json's IndexMut<&str> on self.request: Null becomes an empty object, an
\* object is indexed (the key inserted when missing), anything else panics.
TopWritable(p) == p.kind \in IndexablePayloads

\* self.request["requestOptions"][..]: the same rule applied twice; a missing
\* requestOptions is inserted as Null and then becomes an object.
OptionsWritable(p) ==
    /\ p.kind \in IndexablePayloads
    /\ p.requestOptions.kind \in {"absent", "null", "obj"}

SetTop_Rebuilds(p, field, v) ==
    [Payload("obj", Absent, Absent, Absent, p.requestOptions) EXCEPT ![field] = v]

SetTop(p, field, v) == [p EXCEPT !.kind = "obj", ![field] = v]

SetOption_Replaces(p, field, v) ==
    [p EXCEPT !.kind = "obj",
              !.requestOptions = [NoOptions EXCEPT !.kind = "obj", ![field] = v]]

SetOption(p, field, v) ==
    [p EXCEPT !.kind = "obj",
              !.requestOptions = [p.requestOptions EXCEPT !.kind = "obj", ![field] = v]]

-----------------------------------------------------------------------------
(* Wire tokens of the refinement values (types.rs).                        *)

Resolutions == {"Country", "City", "Dma"}
Sources == {"Search", "Images", "News", "Videos", "Shopping"}
Categories ==
    {"All", "Entertainment", "Electronics", "Finance", "Games", "Home", "Business",
     "Internet", "Society", "News", "Shopping", "Law", "Sports", "Literature",
     "RealEstate", "Fitness", "Health", "Vehicles", "Hobbies", "Pets", "Travel",
     "Food", "Science", "Communities", "Reference", "Education"}

ResolutionWire(r) ==
    CASE r = "Country" -> "COUNTRY"
      [] r = "City" -> "CITY"
      [] r = "Dma" -> "DMA"

SourceWire(s) ==
    CASE s = "Search" -> ""
      [] s = "Images" -> "images"
      [] s = "News" -> "news"
      [] s = "Videos" -> "youtube"
      [] s = "Shopping" -> "froogle"

CategoryCode(c) ==
    CASE c = "All" -> 0
      [] c = "Entertainment" -> 3
      [] c = "Electronics" -> 5
      [] c = "Finance" -> 7
      [] c = "Games" -> 8
      [] c = "Home" -> 11
      [] c = "Business" -> 12
      [] c = "Internet" -> 13
      [] c = "Society" -> 14
      [] c = "News" -> 16
      [] c = "Shopping" -> 18
      [] c = "Law" -> 19
      [] c = "Sports" -> 20
      [] c = "Literature" -> 22
      [] c = "RealEstate" -> 29
      [] c = "Fitness" -> 44
      [] c = "Health" -> 45
      [] c = "Vehicles" -> 47
      [] c = "Hobbies" -> 65
      [] c = "Pets" -> 66
      [] c = "Travel" -> 67
      [] c = "Food" -> 71
      [] c = "Science" -> 174
      [] c = "Communities" -> 299
      [] c = "Reference" -> 533
      [] c = "Education" -> 958

-----------------------------------------------------------------------------
(* RequestParameters and its mutators.  A mutator returns ok = FALSE when  *)
(* the indexing panics; serde_json::to_value of these enums cannot fail.   *)

NoItem == [present |-> FALSE, token |-> "", id |-> "", request |-> NullPayload]
RequestParameters(tok, i, r) == [present |-> TRUE, token |-> tok, id |-> i, request |-> r]

resolution(self, r) ==
    IF TopWritable(self.request)
    THEN [ok |-> TRUE,
          self |-> [self EXCEPT !.request = SetTop(self.request, "resolution", JStr(ResolutionWire(r)))]]
    ELSE [ok |-> FALSE, self |-> self]

source(self, s) ==
    IF OptionsWritable(self.request)
    THEN [ok |-> TRUE,
          self |-> [self EXCEPT !.request = SetOption(self.request, "property", JStr(SourceWire(s)))]]
    ELSE [ok |-> FALSE, self |-> self]

category(self, c) ==
    IF OptionsWritable(self.request)
    THEN [ok |-> TRUE,
          self |-> [self EXCEPT !.request = SetOption(self.request, "category", JNum(CategoryCode(c)))]]
    ELSE [ok |-> FALSE, self |-> self]

include_low_volume_geos(self, include) ==
    IF TopWritable(self.request)
    THEN [ok |-> TRUE,
          self |-> [self EXCEPT !.request =
                        SetTop(self.request, "includeLowSearchVolumeGeos", JBool(include))]]
    ELSE [ok |-> FALSE, self |-> self]

-----------------------------------------------------------------------------
(* Widget descriptors: the raw JSON elements of "widgets" and the untagged *)
(* enum Feature they decode to.                                            *)

RawWidget(hasId, i, hasToken, tok, hasRequest, r) ==
    [hasId |-> hasId, id |-> i, hasToken |-> hasToken, token |-> tok,
     hasRequest |-> hasRequest, request |-> r]

RawData(i, tok, r) == RawWidget(TRUE, i, TRUE, tok, TRUE, r)
RawOther(i) == RawWidget(TRUE, i, FALSE, "", FALSE, NullPayload)
RawNoId == RawWidget(FALSE, "", FALSE, "", FALSE, NullPayload)
RawNoToken(i, r) == RawWidget(TRUE, i, FALSE, "", TRUE, r)

\* mutant: an element that fits no variant is passed over, the list still decodes
Decodable_Lenient(raw) == TRUE

\* #[serde(untagged)]: DataRequest is tried first, then Other { id }
FitsDataRequest(raw) == raw.hasId /\ raw.hasToken /\ raw.hasRequest
FitsOther(raw) == raw.hasId
Decodable(raw) == FitsDataRequest(raw) \/ FitsOther(raw)

Feature(raw) ==
    IF FitsDataRequest(raw)
    THEN [variant |-> "DataRequest", desc |-> RequestParameters(raw.token, raw.id, raw.request)]
    ELSE [variant |-> "Other", desc |-> [NoItem EXCEPT !.id = raw.id]]

SearchTypes == {"TimeSeries", "Region", "RelatedTopics", "RelatedQueries"}

SearchId(search) ==
    CASE search = "TimeSeries" -> "TIMESERIES"
      [] search = "Region" -> "GEO_MAP"
      [] search = "RelatedTopics" -> "RELATED_TOPICS"
      [] search = "RelatedQueries" -> "RELATED_QUERIES"

Matches(w, search) == w.variant = "DataRequest" /\ w.desc.id = SearchId(search)

\* mutant: the last matching element instead of the first
get_request_Last(widgets, search) ==
    LET hits == {i \in 1..Len(widgets) : Matches(widgets[i], search)}
    IN IF hits = {} THEN NoItem
       ELSE widgets[CHOOSE i \in hits : \A j \in hits : i >= j].desc

\* mutant: the first data request, whatever its id
get_request_AnyId(widgets, search) ==
    LET hits == {i \in 1..Len(widgets) : widgets[i].variant = "DataRequest"}
    IN IF hits = {} THEN NoItem
       ELSE widgets[CHOOSE i \in hits : \A j \in hits : i <= j].desc

\* self.widgets.iter().find_map(..): the first matching element, or None
get_request(widgets, search) ==
    LET hits == {i \in 1..Len(widgets) : Matches(widgets[i], search)}
    IN IF hits = {} THEN NoItem
       ELSE widgets[CHOOSE i \in hits : \A j \in hits : i <= j].desc

endpoint(search) ==
    CASE search = "TimeSeries" -> "widgetdata/multiline"
      [] search = "Region" -> "widgetdata/comparedgeo"
      [] search = "RelatedTopics" -> "widgetdata/relatedsearches"
      [] search = "RelatedQueries" -> "widgetdata/relatedsearches"

ExploreUrl == "explore"

-----------------------------------------------------------------------------
(* Response bodies.  A body is a run of leading characters `pre` followed  *)
(* by a document `doc`.  A leading character is "g" (one byte, not white   *)
(* space), "w" (one byte of JSON white space) or "m" (a two-byte UTF-8     *)
(* character).  The document is nothing, text that is not JSON, JSON of    *)
(* some other shape, or JSON of one of the three shapes the client reads;  *)
(* its text is ASCII, does not start with white space, and is len bytes.   *)

PreChars == {"g", "w", "m"}
Width(c) == IF c = "m" THEN 2 ELSE 1

RECURSIVE Bytes(_)
Bytes(cs) == IF cs = <<>> THEN 0 ELSE Width(Head(cs)) + Bytes(Tail(cs))

Doc(shape, n, ws, es) == [shape |-> shape, len |-> n, widgets |-> ws, entries |-> es]
NoDoc == Doc("none", 0, <<>>, <<>>)
GarbageDoc(n) == Doc("garbage", n, <<>>, <<>>)
OtherJson(n) == Doc("other", n, <<>>, <<>>)
\* {"widgets":[..]} is at least 14 bytes, {"default":{"timelineData":[..]}} at least 31
ExploreDoc(ws) == Doc("explore", 14 + Len(ws), ws, <<>>)
TimelineDoc(es) == Doc("timeline", 31 + Len(es), <<>>, es)
GeoMapDoc(es) == Doc("geomap", 29 + Len(es), <<>>, es)

JsonShapes == {"other", "explore", "timeline", "geomap"}

Body(pre, doc) == [pre |-> pre, doc |-> doc]
EmptyBody == Body(<<>>, NoDoc)
ByteLen(body) == Bytes(body.pre) + body.doc.len

\* &body[n..]: panics when n is past the end or not on a character boundary;
\* otherwise the rest of the leading characters, and how far the cut went into
\* the document.
Strip(body, n) ==
    LET inPre == {k \in 0..Len(body.pre) : Bytes(SubSeq(body.pre, 1, k)) = n}
    IN IF n > ByteLen(body)
       THEN [ok |-> FALSE, pre |-> <<>>, cut |-> 0, doc |-> NoDoc]
       ELSE IF n >= Bytes(body.pre)
       THEN [ok |-> TRUE, pre |-> <<>>, cut |-> n - Bytes(body.pre), doc |-> body.doc]
       ELSE IF inPre = {}
       THEN [ok |-> FALSE, pre |-> <<>>, cut |-> 0, doc |-> NoDoc]
       ELSE LET k == CHOOSE k \in inPre : TRUE
            IN [ok |-> TRUE, pre |-> SubSeq(body.pre, k + 1, Len(body.pre)),
                cut |-> 0, doc |-> body.doc]

\* serde_json::from_str skips leading white space and then needs one whole JSON
\* document; a document that lost its first bytes is never one of the shapes read.
IsJson(rest) ==
    /\ \A i \in 1..Len(rest.pre) : rest.pre[i] = "w"
    /\ rest.cut = 0
    /\ rest.doc.shape \in JsonShapes

\* ExploreResponse { widgets: Vec<Feature> }: every element must fit a variant
DecodeExplore(rest) ==
    IF /\ IsJson(rest)
       /\ rest.doc.shape = "explore"
       /\ \A i \in 1..Len(rest.doc.widgets) : Decodable(rest.doc.widgets[i])
    THEN [ok |-> TRUE, widgets |-> [i \in 1..Len(rest.doc.widgets) |-> Feature(rest.doc.widgets[i])]]
    ELSE [ok |-> FALSE, widgets |-> <<>>]

\* TimeSeriesResponse / GeoDataResponse { default: .. }, by the type parameter A
ShapeOf(search) == IF search = "TimeSeries" THEN "timeline" ELSE "geomap"

DecodeData(rest, search) ==
    IF IsJson(rest) /\ rest.doc.shape = ShapeOf(search)
    THEN [ok |-> TRUE, entries |-> rest.doc.entries]
    ELSE [ok |-> FALSE, entries |-> <<>>]

-----------------------------------------------------------------------------
(* Requests, responses and results.                                        *)

Query(items) == [comparisonItem |-> items, category |-> "All", property |-> "Search"]
QueryNew(items) == Query(items)
QueryItemByKeyword(keyword) == [keyword |-> keyword, geo |-> "none"]
QueryByKeyword(keyword) == QueryNew(<<QueryItemByKeyword(keyword)>>)
NoQuery == Query(<<>>)

\* a GET request: url, the token and req query parameters, the Cookie header, and
\* the other headers as a set of <<name, value>>; the builder sets none
Request(url, tok, q, p, cookie) ==
    [method |-> "GET", url |-> url, token |-> tok, query |-> q, payload |-> p,
     cookie |-> cookie, headers |-> {}]
NoRequest == Request("", "", NoQuery, NullPayload, NoHeader)

Response(status, setCookie, body) == [status |-> status, setCookie |-> setCookie, body |-> body]

\* the outcome of client.execute(..) followed by the read of the body: a
\* transport failure (either of the two) or a response
Failure == [ok |-> FALSE, resp |-> Response(0, NoHeader, EmptyBody)]
Delivered(resp) == [ok |-> TRUE, resp |-> resp]

NoText == [isBody |-> FALSE, body |-> EmptyBody, msg |-> ""]
BodyText(body) == [isBody |-> TRUE, body |-> body, msg |-> ""]
Message(m) == [isBody |-> FALSE, body |-> EmptyBody, msg |-> m]

Result(kind, text, resp, entries) ==
    [kind |-> kind, text |-> text, resp |-> resp, entries |-> entries]
NoResult == Result("none", NoText, Failure.resp, <<>>)
Panic == Result("Panic", NoText, Failure.resp, <<>>)
JsonError == Result("JsonError", NoText, Failure.resp, <<>>)
RequestError == Result("RequestError", NoText, Failure.resp, <<>>)
UnexpectedResponse(text) == Result("UnexpectedResponse", text, Failure.resp, <<>>)
OkResponse(resp) == Result("Ok", NoText, resp, <<>>)
OkData(entries) == Result("Ok", NoText, Failure.resp, entries)

-----------------------------------------------------------------------------
(* The inputs the model draws from.                                        *)

ObjPlain == Payload("obj", Absent, Absent, JStr("x"), NoOptions)
ObjWithOptions ==
    Payload("obj", JStr("COUNTRY"), Absent, JStr("x"),
            [kind |-> "obj", property |-> JStr(""), category |-> JNum(0), extra |-> JStr("y")])
ObjBadOptions ==
    Payload("obj", Absent, Absent, Absent, [NoOptions EXCEPT !.kind = "scalar"])

WidgetPool ==
    { RawData("TIMESERIES", "t1", ObjWithOptions),
      RawData("TIMESERIES", "t2", ObjPlain),
      RawData("TIMESERIES", "t3", ScalarPayload),
      RawData("GEO_MAP", "t1", ObjWithOptions),
      RawData("GEO_MAP", "t2", NullPayload),
      RawData("GEO_MAP", "t3", ObjBadOptions),
      RawData("RELATED_QUERIES", "t1", ObjPlain),
      RawOther("TIMESERIES"),
      RawOther("GEO_MAP"),
      RawNoToken("TIMESERIES", ObjPlain),
      RawNoId }

WidgetLists == SeqsUpTo(WidgetPool, MaxWidgets)

EntryPool == {[value |-> 1, has_data |-> 1], [value |-> 2, has_data |-> 1]}
EntryLists == SeqsUpTo(EntryPool, MaxEntries)

Guards == {Repeat("g", a) \o t : a \in 0..MaxGuard, t \in {<<>>, <<"w">>, <<"m">>}}
GoodGuards == {Repeat("g", ExplorePrefix), Repeat("g", ExplorePrefix) \o <<"w">>,
               Repeat("g", QueryPrefix)}

SampleExplore == ExploreDoc(<<RawOther("TIMESERIES"), RawData("TIMESERIES", "t1", ObjWithOptions),
                              RawData("GEO_MAP", "t2", NullPayload)>>)
SampleTimeline == TimelineDoc(<<[value |-> 1, has_data |-> 1]>>)
SampleGeoMap == GeoMapDoc(<<[value |-> 1, has_data |-> 1]>>)
ProbeDocs == {NoDoc, GarbageDoc(1), OtherJson(1), OtherJson(14)}

ExploreBodies ==
    {Body(g, d) : g \in Guards, d \in ProbeDocs \cup {SampleExplore}}
      \cup {Body(g, ExploreDoc(ws)) : g \in GoodGuards, ws \in WidgetLists}
      \cup {Body(g, SampleTimeline) : g \in GoodGuards}

FetchBodies ==
    {Body(g, d) : g \in Guards, d \in ProbeDocs \cup {SampleTimeline, SampleGeoMap}}
      \cup {Body(g, TimelineDoc(es)) : g \in GoodGuards, es \in EntryLists}
      \cup {Body(g, GeoMapDoc(es)) : g \in GoodGuards, es \in EntryLists}
      \cup {Body(g, SampleExplore) : g \in GoodGuards}

\* bodies sent with a status other than 200: an error page, or a well-formed body
ErrorPage == Body(<<"g", "g">>, GarbageDoc(14))
OtherBodies(stg) ==
    {ErrorPage, Body(Repeat("g", ExplorePrefix) \o <<"w">>,
                     IF stg = "explore" THEN SampleExplore ELSE SampleTimeline)}

CookieTexts == SeqsUpTo(CookieChars, MaxCookieLen)
AllSetCookies == {NoHeader, OpaqueHeader} \cup {TextHeader(cs) : cs \in CookieTexts}
FewSetCookies == {NoHeader, OpaqueHeader, TextHeader(<<"s", ";">>)}

Statuses == {200, 429, 500}

Responses(stg) ==
    IF stg = "bare"
    THEN {Response(st, c, b) : st \in Statuses, c \in AllSetCookies, b \in OtherBodies(stg)}
    ELSE {Response(200, NoHeader, b) : b \in IF stg = "explore" THEN ExploreBodies ELSE FetchBodies}
           \cup {Response(429, c, b) : c \in FewSetCookies, b \in OtherBodies(stg)}
           \cup {Response(500, NoHeader, b) : b \in OtherBodies(stg)}

Outcomes(stg) == {Failure} \cup {Delivered(r) : r \in Responses(stg)}

ArgSources == {"Search", "News"}
ArgCategories == {"All", "Finance"}
ArgResolutions == {"Country", "City"}
\* the public constructors: Query::by_keyword, and Query::new on any Vec, the
\* empty one included
Queries == {QueryByKeyword("rust"), QueryNew(<<>>)}

Args(q, r, s, c, low) ==
    [query |-> q, resolution |-> r, source |-> s, category |-> c, include |-> low]
NoArgs == Args(NoQuery, "Country", "Search", "All", FALSE)

-----------------------------------------------------------------------------
(* The call in flight, as one record, and the handlers as functions of it. *)

Cur ==
    [pc |-> pc, op |-> op, args |-> args, stage |-> stage, req_copy |-> req_copy,
     sent |-> sent, resps |-> resps, explored |-> explored, item |-> item,
     selected |-> selected, result |-> result]

Apply(n) ==
    /\ pc' = n.pc
    /\ op' = n.op
    /\ args' = n.args
    /\ stage' = n.stage
    /\ req_copy' = n.req_copy
    /\ sent' = n.sent
    /\ resps' = n.resps
    /\ explored' = n.explored
    /\ item' = n.item
    /\ selected' = n.selected
    /\ result' = n.result

SearchOf(o) == IF o = "interest_by_time" THEN "TimeSeries" ELSE "Region"

\* the operation returns r to its caller (or, for Panic, unwinds)
Finish(st, r) == [st EXCEPT !.pc = "done", !.result = r]

\* run_with_retry up to its first await: the copy is taken, the request executed
Execute(st, stg, req) ==
    [st EXCEPT !.stage = stg,
               !.req_copy = req,
               !.sent = Append(@, [stage |-> stg, req |-> req]),
               !.resps = <<>>,
               !.pc = "await1"]

\* mutant: the whole Set-Cookie value, attributes included, becomes the cookie
RetryRequest_WholeValue(copy, resp) ==
    IF resp.setCookie.present /\ resp.setCookie.text
    THEN [copy EXCEPT !.cookie = TextHeader(resp.setCookie.chars)]
    ELSE copy

\* mutant: the cookie is appended to the Cookie header the copy already has
RetryRequest_Appends(copy, resp) ==
    LET c == CookieOf(resp)
    IN IF c.some THEN [copy EXCEPT !.cookie = TextHeader(copy.cookie.chars \o c.val)] ELSE copy

\* req_copy.headers_mut().insert("cookie", header) when a cookie was found; insert
\* replaces a Cookie header the copy already has.  HeaderValue::from_str(val).unwrap()
\* cannot panic: val is a piece of text that to_str accepted.
RetryRequest(copy, resp) ==
    LET c == CookieOf(resp)
    IN IF c.some THEN [copy EXCEPT !.cookie = TextHeader(c.val)] ELSE copy

\* explore up to the await of run_with_retry
explore(st) ==
    Execute(st, "explore", Request(ExploreUrl, "", st.args.query, NullPayload, NoHeader))

\* mutant: the fetch always goes to the time-series endpoint
query_OneEndpoint(st) ==
    Execute(st, "fetch",
            Request(endpoint("TimeSeries"), st.item.token, NoQuery, st.item.request, NoHeader))

\* query up to the await of run_with_retry
query(st) ==
    Execute(st, "fetch",
            Request(endpoint(SearchOf(st.op)), st.item.token, NoQuery, st.item.request, NoHeader))

\* query after run_with_retry returned r, and the Ok(resp.default) of its caller
QueryReturn(st, r) ==
    IF r.kind # "Ok" THEN Finish(st, r)
    ELSE LET rest == Strip(r.resp.body, QueryPrefix)
             dec == DecodeData(rest, SearchOf(st.op))
         IN IF ~rest.ok THEN Finish(st, Panic)
            ELSE IF ~dec.ok THEN Finish(st, JsonError)
            ELSE Finish(st, OkData(dec.entries))

\* the mutations of interest_by_time / interest_by_region, in their order; a panic
\* (ok = FALSE) ends them
Mutated(o, it, a) ==
    LET region == o = "interest_by_region"
        r0 == IF region THEN resolution(it, a.resolution) ELSE [ok |-> TRUE, self |-> it]
        r1 == IF r0.ok THEN source(r0.self, a.source) ELSE r0
        r2 == IF r1.ok THEN category(r1.self, a.category) ELSE r1
    IN IF region /\ r2.ok THEN include_low_volume_geos(r2.self, a.include) ELSE r2

\* the public operation after explore returned Ok(it): mutate, then query
AfterExplore(st, it) ==
    LET m == Mutated(st.op, it, st.args)
    IN IF ~m.ok THEN Finish([st EXCEPT !.explored = "ok", !.selected = it], Panic)
       ELSE query([st EXCEPT !.explored = "ok", !.selected = it, !.item = m.self])

ExploreFailed(st, r) == Finish([st EXCEPT !.explored = "failed"], r)

Unavailable == UnexpectedResponse(Message("Search feature unavailable"))

\* explore after run_with_retry returned r
ExploreReturn(st, r) ==
    IF r.kind # "Ok" THEN ExploreFailed(st, r)
    ELSE LET rest == Strip(r.resp.body, ExplorePrefix)
             dec == DecodeExplore(rest)
             found == get_request(dec.widgets, SearchOf(st.op))
         IN IF ~rest.ok THEN ExploreFailed(st, Panic)
            ELSE IF ~dec.ok THEN ExploreFailed(st, JsonError)
            ELSE IF ~found.present THEN ExploreFailed(st, Unavailable)
            ELSE AfterExplore(st, found)

\* run_with_retry returns r to whoever awaited it
Deliver(st, r) ==
    CASE st.stage = "explore" -> ExploreReturn(st, r)
      [] st.stage = "fetch" -> QueryReturn(st, r)
      [] OTHER -> Finish(st, r)

\* mutant: only 429 is looked at, any other status is returned as Ok
OnFirstResponse_NoStatusCheck(st, o) ==
    IF ~o.ok THEN Deliver(st, RequestError)
    ELSE LET got == [st EXCEPT !.resps = Append(@, o.resp)]
             retry == RetryRequest(st.req_copy, o.resp)
         IN IF o.resp.status = 429
            THEN [got EXCEPT !.req_copy = retry,
                             !.sent = Append(@, [stage |-> st.stage, req |-> retry]),
                             !.pc = "await2"]
            ELSE Deliver(got, OkResponse(o.resp))

\* mutant: every status other than 200 is retried
OnFirstResponse_RetriesAnyError(st, o) ==
    IF ~o.ok THEN Deliver(st, RequestError)
    ELSE LET got == [st EXCEPT !.resps = Append(@, o.resp)]
             retry == RetryRequest(st.req_copy, o.resp)
         IN IF o.resp.status = 200
            THEN Deliver(got, OkResponse(o.resp))
            ELSE [got EXCEPT !.req_copy = retry,
                             !.sent = Append(@, [stage |-> st.stage, req |-> retry]),
                             !.pc = "await2"]

\* run_with_retry from the first response on: the match on resp.status()
OnFirstResponse(st, o) ==
    IF ~o.ok THEN Deliver(st, RequestError)
    ELSE LET got == [st EXCEPT !.resps = Append(@, o.resp)]
             retry == RetryRequest(st.req_copy, o.resp)
         IN CASE o.resp.status = 429 ->
                   [got EXCEPT !.req_copy = retry,
                               !.sent = Append(@, [stage |-> st.stage, req |-> retry]),
                               !.pc = "await2"]
              [] o.resp.status = 200 -> Deliver(got, OkResponse(o.resp))
              [] OTHER -> Deliver(got, UnexpectedResponse(BodyText(o.resp.body)))

\* mutant: a retry answered by 429 is retried again
OnRetryResponse_RetriesAgain(st, o) ==
    IF ~o.ok THEN Deliver(st, RequestError)
    ELSE LET got == [st EXCEPT !.resps = Append(@, o.resp)]
         IN IF o.resp.status = 429
            THEN [got EXCEPT !.sent = Append(@, [stage |-> st.stage, req |-> st.req_copy])]
            ELSE Deliver(got, OkResponse(o.resp))

\* Ok(self.client.execute(req_copy).await?)
OnRetryResponse(st, o) ==
    IF ~o.ok THEN Deliver(st, RequestError)
    ELSE Deliver([st EXCEPT !.resps = Append(@, o.resp)], OkResponse(o.resp))

-----------------------------------------------------------------------------
(* The specifications.                                                     *)

NoProbe == [fn |-> "none", widgets |-> <<>>, search |-> "TimeSeries", out |-> NoItem]

\* a call that has not started
Idle ==
    [pc |-> "idle", op |-> "none", args |-> NoArgs, stage |-> "none", req_copy |-> NoRequest,
     sent |-> <<>>, resps |-> <<>>, explored |-> "none", item |-> NoItem,
     selected |-> NoItem, result |-> NoResult]

Callers == {1, 2}

Init ==
    /\ pc = "idle"
    /\ op = "none"
    /\ args = NoArgs
    /\ stage = "none"
    /\ req_copy = NoRequest
    /\ sent = <<>>
    /\ resps = <<>>
    /\ explored = "none"
    /\ item = NoItem
    /\ selected = NoItem
    /\ result = NoResult
    /\ probe = NoProbe
    /\ calls = [c \in Callers |-> Idle]
    /\ jar = NoHeader

interest_by_time ==
    /\ pc = "idle"
    /\ \E q \in Queries, s \in ArgSources, c \in ArgCategories :
         Apply(explore([Cur EXCEPT !.op = "interest_by_time",
                                   !.args = Args(q, "Country", s, c, FALSE)]))
    /\ UNCHANGED <<probe, calls, jar>>

interest_by_region ==
    /\ pc = "idle"
    /\ \E q \in Queries, r \in ArgResolutions, s \in ArgSources, c \in ArgCategories,
          low \in BOOLEAN :
         Apply(explore([Cur EXCEPT !.op = "interest_by_region", !.args = Args(q, r, s, c, low)]))
    /\ UNCHANGED <<probe, calls, jar>>

FirstResponse ==
    /\ pc = "await1"
    /\ \E o \in Outcomes(stage) : Apply(OnFirstResponse(Cur, o))
    /\ UNCHANGED <<probe, calls, jar>>

RetryResponse ==
    /\ pc = "await2"
    /\ \E o \in Outcomes(stage) : Apply(OnRetryResponse(Cur, o))
    /\ UNCHANGED <<probe, calls, jar>>

Next == interest_by_time \/ interest_by_region \/ FirstResponse \/ RetryResponse

Spec == Init /\ [][Next]_vars

\* run_with_retry called on its own, with the requests explore and query build
BareRequests ==
    {Request(ExploreUrl, "", q, NullPayload, NoHeader) : q \in Queries}
      \cup {Request(endpoint(t), "t1", NoQuery, ObjPlain, NoHeader) : t \in SearchTypes}

run_with_retry ==
    /\ pc = "idle"
    /\ \E r \in BareRequests : Apply(Execute([Cur EXCEPT !.op = "run_with_retry"], "bare", r))
    /\ UNCHANGED <<probe, calls, jar>>

NextRetry == run_with_retry \/ FirstResponse \/ RetryResponse

SpecRetry == Init /\ [][NextRetry]_vars

\* run_with_retry called on its own with any Request value: another method, a
\* Cookie header and other headers already set
HeaderSets == {{}, {<<"accept", "json">>}, {<<"accept", "json">>, <<"dnt", "1">>}}
OwnCookies == {NoHeader, TextHeader(<<"o">>)}
AnyRequests ==
    {[Request(endpoint("TimeSeries"), "t1", NoQuery, ObjPlain, c)
        EXCEPT !.method = me, !.headers = hs] :
       c \in OwnCookies, me \in {"GET", "POST"}, hs \in HeaderSets}

run_with_retry_any ==
    /\ pc = "idle"
    /\ \E r \in AnyRequests : Apply(Execute([Cur EXCEPT !.op = "run_with_retry"], "bare", r))
    /\ UNCHANGED <<probe, calls, jar>>

NextHeaders == run_with_retry_any \/ FirstResponse \/ RetryResponse

SpecHeaders == Init /\ [][NextHeaders]_vars

\* Two callers run the public operations at once on one client.  The client is
\* shared by reference and holds the reqwest::Client, which Client::new() builds
\* without a cookie store: it keeps nothing of a response.
Remember_CookieStore(j, resp) ==
    IF CookieOf(resp).some THEN TextHeader(CookieOf(resp).val) ELSE j

Remember(j, resp) == j

\* client.execute(req): a cookie the client keeps is added to a request without one
OnWire(j, req) ==
    IF j.present /\ ~req.cookie.present THEN [req EXCEPT !.cookie = j] ELSE req

\* the requests a step executed, as the client sends them
Wired(old, new, j) ==
    [new EXCEPT !.sent = [k \in 1..Len(new.sent) |->
                            IF k > Len(old.sent)
                            THEN [new.sent[k] EXCEPT !.req = OnWire(j, new.sent[k].req)]
                            ELSE new.sent[k]]]

ConcOps == {"interest_by_time", "interest_by_region"}
ConcArgs(c) ==
    IF c = 1 THEN Args(QueryByKeyword("rust"), "City", "News", "Finance", TRUE)
    ELSE Args(QueryByKeyword("go"), "Country", "Search", "All", FALSE)

ConcSetCookies == {NoHeader, TextHeader(<<"s", ";">>), TextHeader(<<"s", "s">>)}
ConcBody(st) ==
    IF st.stage = "explore" THEN Body(Repeat("g", ExplorePrefix), SampleExplore)
    ELSE Body(Repeat("g", QueryPrefix),
              IF st.op = "interest_by_time" THEN SampleTimeline ELSE SampleGeoMap)
ConcOutcomes(st) ==
    {Failure, Delivered(Response(200, NoHeader, ConcBody(st))),
     Delivered(Response(500, NoHeader, ErrorPage))}
      \cup {Delivered(Response(429, c, ErrorPage)) : c \in ConcSetCookies}

OnResponse(st, o) ==
    IF st.pc = "await1" THEN OnFirstResponse(st, o) ELSE OnRetryResponse(st, o)

ConcStart(c) ==
    /\ calls[c].pc = "idle"
    /\ \E o \in ConcOps :
         LET n == explore([calls[c] EXCEPT !.op = o, !.args = ConcArgs(c)])
         IN calls' = [calls EXCEPT ![c] = Wired(calls[c], n, jar)]
    /\ UNCHANGED <<pc, op, args, stage, req_copy, sent, resps, explored, item, selected, result,
                   probe, jar>>

ConcRespond(c) ==
    /\ calls[c].pc \in {"await1", "await2"}
    /\ \E o \in ConcOutcomes(calls[c]) :
         LET j == IF o.ok THEN Remember(jar, o.resp) ELSE jar
         IN /\ calls' = [calls EXCEPT ![c] = Wired(calls[c], OnResponse(calls[c], o), j)]
            /\ jar' = j
    /\ UNCHANGED <<pc, op, args, stage, req_copy, sent, resps, explored, item, selected, result,
                   probe>>

NextConc == (\E c \in Callers : ConcStart(c)) \/ (\E c \in Callers : ConcRespond(c))

SpecConc == Init /\ [][NextConc]_vars

\* get_request called on its own, on every decoded widgets list
ProbeIds == {SearchId(t) : t \in SearchTypes}
ProbePool ==
    {RawData(i, t, ObjPlain) : i \in ProbeIds, t \in {"t1", "t2"}}
      \cup {RawOther(i) : i \in ProbeIds}
ProbeLists == SeqsUpTo(ProbePool, MaxWidgets)

GetRequest ==
    /\ probe.fn = "none"
    /\ \E raw \in ProbeLists, search \in SearchTypes :
         LET ws == [i \in 1..Len(raw) |-> Feature(raw[i])]
         IN probe' = [fn |-> "get_request", widgets |-> ws, search |-> search,
                      out |-> get_request(ws, search)]
    /\ UNCHANGED <<pc, op, args, stage, req_copy, sent, resps, explored, item, selected, result,
                   calls, jar>>

NextGet == GetRequest

SpecGet == Init /\ [][NextGet]_vars

\* The four mutators called on their own, one and then another, on every shape of
\* payload a descriptor can carry
Leaves(x) == {Absent, x}
OptionsPool ==
    {NoOptions,
     [NoOptions EXCEPT !.kind = "null"],
     [NoOptions EXCEPT !.kind = "scalar"]}
      \cup {[kind |-> "obj", property |-> pr, category |-> ca, extra |-> ex] :
              pr \in Leaves(JStr("")), ca \in Leaves(JNum(0)), ex \in Leaves(JStr("y"))}
PayloadPool ==
    {NullPayload, ScalarPayload}
      \cup {Payload("obj", res, low, ex, ro) :
              res \in Leaves(JStr("COUNTRY")), low \in Leaves(JBool(FALSE)),
              ex \in Leaves(JStr("x")), ro \in OptionsPool}

Mutation(m, v) == [m |-> m, v |-> v]
Mutations ==
    {Mutation("resolution", r) : r \in Resolutions}
      \cup {Mutation("source", s) : s \in Sources}
      \cup {Mutation("category", c) : c \in Categories}
      \cup {Mutation("include_low_volume_geos", IF b THEN "true" ELSE "false") : b \in BOOLEAN}

Mutate(self, mu) ==
    CASE mu.m = "resolution" -> resolution(self, mu.v)
      [] mu.m = "source" -> source(self, mu.v)
      [] mu.m = "category" -> category(self, mu.v)
      [] mu.m = "include_low_volume_geos" -> include_low_volume_geos(self, mu.v = "true")

\* a second mutator is reached only when the first returned
MutateBoth(self, m1, m2) ==
    LET r1 == Mutate(self, m1)
    IN IF r1.ok THEN Mutate(r1.self, m2) ELSE r1

MutateItem ==
    /\ probe.fn = "none"
    /\ \E p \in PayloadPool, m1 \in Mutations, m2 \in Mutations :
         LET it == RequestParameters("t1", "TIMESERIES", p)
         IN /\ m1.m # m2.m
            /\ probe' = [fn |-> "mutate", item |-> it, m1 |-> m1, m2 |-> m2,
                         r1 |-> Mutate(it, m1),
                         r12 |-> MutateBoth(it, m1, m2),
                         r21 |-> MutateBoth(it, m2, m1)]
    /\ UNCHANGED <<pc, op, args, stage, req_copy, sent, resps, explored, item, selected, result,
                   calls, jar>>

NextMutate == MutateItem

SpecMutate == Init /\ [][NextMutate]_vars

-----------------------------------------------------------------------------
(* What the claims speak of.                                               *)

Last(q) == q[Len(q)]

\* the requests the current run_with_retry call has executed
RunSent == SelectSeq(sent, LAMBDA e : e.stage = stage)

\* every request of the current run was answered by a response
AllAnswered == resps # <<>> /\ Len(resps) = Len(RunSent)

FetchSent == \E i \in 1..Len(sent) : sent[i].stage = "fetch"

\* the explore stage ended and run_with_retry had returned Ok(response)
ExploreGotResponse ==
    /\ pc = "done"
    /\ stage = "explore"
    /\ AllAnswered
    /\ Len(resps) = 1 => resps[1].status = 200

\* the body of that response is well formed: the prefix strips, the rest decodes
ExploreDecodes ==
    /\ ExploreGotResponse
    /\ Strip(Last(resps).body, ExplorePrefix).ok
    /\ DecodeExplore(Strip(Last(resps).body, ExplorePrefix)).ok

\* no element of the raw widgets list is a data request with the wanted id
NoDescriptor ==
    LET raw == Last(resps).body.doc.widgets
    IN \A i \in 1..Len(raw) :
          ~(raw[i].hasId /\ raw[i].hasToken /\ raw[i].hasRequest
              /\ raw[i].id = SearchId(SearchOf(op)))

-----------------------------------------------------------------------------
C2_NoCookieNoRetry ==
    (resps # <<>> /\ resps[1].status = 429 /\ ~resps[1].setCookie.present)
        => /\ Len(RunSent) = 1
           /\ pc = "done"
           /\ result.kind = "UnexpectedResponse"

\* C3 (as stated): a public operation whose last response has a status other than 200
\* returns the unexpected-response error carrying that response's body.
C3_LastNot200 ==
    (pc = "done" /\ stage \in {"explore", "fetch"} /\ AllAnswered /\ Last(resps).status # 200)
        => result = UnexpectedResponse(BodyText(Last(resps).body))

\* C3 (amended): that holds when the last response is the first response of its
\* run_with_retry call; a retry's response with a status other than 200 is handed to
\* the decoder as it is, so the operation then ends as the decoding of that body ends.
C3_FirstNot200 ==
    (pc = "done" /\ stage \in {"explore", "fetch"} /\ AllAnswered /\ Last(resps).status # 200)
        => IF Len(resps) = 1
           THEN result = UnexpectedResponse(BodyText(resps[1].body))
           ELSE result \in {Panic, JsonError, Unavailable}
                  \cup {OkData(Last(resps).body.doc.entries)}

\* a first response of 500 ended a public operation with its body as the error text
C3_Witness ==
    /\ pc = "done"
    /\ stage = "fetch"
    /\ Len(resps) = 1
    /\ resps[1].status = 500
    /\ result = UnexpectedResponse(BodyText(ErrorPage))

\* the retry state of the current run_with_retry call
RetryState ==
    CASE Len(RunSent) = 0 -> "NotStarted"
      [] Len(RunSent) = 1 -> "Initial"
      [] Len(RunSent) = 2 -> "RetriedOnce"
      [] OTHER -> "Further"

C4_State ==
    /\ Len(RunSent) <= 2
    /\ Len(RunSent) = 2 => (resps # <<>> /\ resps[1].status = 429)
    /\ (resps # <<>> /\ resps[1].status = 200)
          => (Len(RunSent) = 1 /\ pc = "done" /\ result = OkResponse(resps[1]))

C4_Step ==
    RetryState' # RetryState
        => \/ RetryState = "NotStarted" /\ RetryState' = "Initial"
           \/ RetryState = "Initial" /\ RetryState' = "RetriedOnce"

\* C4: one run_with_retry call executes at most two requests, the second only after
\* a first response of 429; a first response of 200 is returned as it is with no second
\* request; the retry state only steps Initial -> RetriedOnce.
C4_AtMostOneRetry == []C4_State /\ [][C4_Step]_vars

\* a retry answered by 429 again: the call is over after two requests
C4_Witness ==
    /\ pc = "done"
    /\ op = "run_with_retry"
    /\ RetryState = "RetriedOnce"
    /\ Len(resps) = 2
    /\ resps[2].status = 429
    /\ result = OkResponse(resps[2])

\* C5: after a first response whose status is neither 200 nor 429, run_with_retry has
\* executed one request only and has failed with the unexpected-response error whose
\* text is that response's body.
C5_OtherStatusFails ==
    (resps # <<>> /\ resps[1].status \notin {200, 429})
        => /\ Len(RunSent) = 1
           /\ pc = "done"
           /\ result = UnexpectedResponse(BodyText(resps[1].body))

C5_Witness ==
    /\ op = "run_with_retry"
    /\ pc = "done"
    /\ Len(resps) = 1
    /\ resps[1].status = 500
    /\ Len(sent) = 1
    /\ result = UnexpectedResponse(BodyText(resps[1].body))

\* C6: when the explore response decodes and holds no data-request descriptor with the
\* wanted id, the operation fails with the widget-unavailable error and no request
\* to a widget-fetch endpoint is ever sent.
C6_NoMatchNoFetch ==
    (ExploreDecodes /\ NoDescriptor)
        => /\ result = Unavailable
           /\ ~FetchSent
           /\ \A i \in 1..Len(sent) : sent[i].req.url = ExploreUrl

\* a decoded list holding a data request of another type and an "other" entry
\* with the wanted id
C6_Witness ==
    /\ ExploreDecodes
    /\ NoDescriptor
    /\ op = "interest_by_time"
    /\ Last(resps).body.doc.widgets = <<RawOther("TIMESERIES"), RawData("GEO_MAP", "t1", ObjWithOptions)>>
    /\ result = Unavailable

\* C7 (as stated): the error returned when no descriptor matches is of another kind
\* than the unexpected-response error returned for a non-200 status.
C7_DistinctKind ==
    (ExploreDecodes /\ NoDescriptor) => result.kind # "UnexpectedResponse"

\* C8: get_request returns the data-request descriptor of lowest index whose id is
\* the identifier of the search type, never an "other" entry, and nothing when
\* there is no such descriptor.
C8_FirstMatch ==
    probe.fn = "get_request" =>
        LET ws == probe.widgets
            want == SearchId(probe.search)
            hit(i) == ws[i].variant = "DataRequest" /\ ws[i].desc.id = want
        IN IF \E i \in 1..Len(ws) : hit(i)
           THEN \E i \in 1..Len(ws) :
                   /\ hit(i)
                   /\ \A j \in 1..(i - 1) : ~hit(j)
                   /\ probe.out = ws[i].desc
                   /\ probe.out.present
           ELSE ~probe.out.present

\* two data requests with the wanted id: the one in front is returned
C8_Witness ==
    /\ probe.fn = "get_request"
    /\ Len(probe.widgets) = 2
    /\ probe.search = "Region"
    /\ probe.widgets[1].variant = "DataRequest"
    /\ probe.widgets[1].desc.id = "GEO_MAP"
    /\ probe.widgets[1].desc.token = "t2"
    /\ probe.widgets[2].variant = "DataRequest"
    /\ probe.widgets[2].desc.id = "GEO_MAP"
    /\ probe.widgets[2].desc.token = "t1"
    /\ probe.out.token = "t2"

TypedErrors == {"JsonError", "RequestError", "UnexpectedResponse"}

\* C9 (as stated): a fetch request is sent only after explore succeeded, every explore
\* request precedes every fetch request, after a failed explore no fetch request is
\* sent, and an operation that did not succeed returns the failure of its stage.
C9_Pipeline ==
    /\ FetchSent => explored = "ok"
    /\ \A i, j \in 1..Len(sent) :
          (sent[i].stage = "fetch" /\ sent[j].stage = "explore") => j < i
    /\ explored = "failed" => (pc = "done" /\ ~FetchSent)
    /\ (pc = "done" /\ result.kind # "Ok") => result.kind \in TypedErrors

\* C10 (as stated): when the body of a 200 response does not strip or does not
\* decode, the operation returns a decode error.
C10_DecodeErrorReturned ==
    (/\ pc = "done"
     /\ stage \in {"explore", "fetch"}
     /\ AllAnswered
     /\ Last(resps).status = 200
     /\ LET n == IF stage = "explore" THEN ExplorePrefix ELSE QueryPrefix
            rest == Strip(Last(resps).body, n)
        IN \/ ~rest.ok
           \/ stage = "explore" /\ ~DecodeExplore(rest).ok
           \/ stage = "fetch" /\ ~DecodeData(rest, SearchOf(op)).ok)
        => result = JsonError

-----------------------------------------------------------------------------
(* The mutators on their own (SpecMutate).                                 *)

Mutated1 == probe.fn = "mutate"
ObjectPayload == Mutated1 /\ probe.item.request.kind = "obj"
OptionsIndexable == probe.item.request.requestOptions.kind \in {"absent", "null", "obj"}

\* the JSON path a mutation writes, and the value it writes there
PathValue(p, mu) ==
    CASE mu.m = "resolution" -> p.resolution
      [] mu.m = "source" -> p.requestOptions.property
      [] mu.m = "category" -> p.requestOptions.category
      [] mu.m = "include_low_volume_geos" -> p.includeLowSearchVolumeGeos
WireValue(mu) ==
    CASE mu.m = "resolution" -> JStr(ResolutionWire(mu.v))
      [] mu.m = "source" -> JStr(SourceWire(mu.v))
      [] mu.m = "category" -> JNum(CategoryCode(mu.v))
      [] mu.m = "include_low_volume_geos" -> JBool(mu.v = "true")
TopLevel(mu) == mu.m \in {"resolution", "include_low_volume_geos"}

\* C11: on every payload a descriptor can carry (null, a non-object value, an
\* object with or without requestOptions, an object whose requestOptions is not
\* an object) every mutation with a value of the fixed enumerations completes
\* and writes its value at its path.
C11_MutationsSucceed ==
    Mutated1 =>
      /\ probe.r1.ok
      /\ probe.r1.self.request.kind = "obj"
      /\ PathValue(probe.r1.self.request, probe.m1) = WireValue(probe.m1)

C18_OnlyOwnPath ==
    (ObjectPayload /\ probe.r1.ok) =>
      LET before == probe.item.request
          after == probe.r1.self.request
          mu == probe.m1
      IN /\ probe.r1.self.token = probe.item.token
         /\ probe.r1.self.id = probe.item.id
         /\ after.extra = before.extra
         /\ mu.m # "resolution" => after.resolution = before.resolution
         /\ mu.m # "include_low_volume_geos" =>
               after.includeLowSearchVolumeGeos = before.includeLowSearchVolumeGeos
         /\ TopLevel(mu) => after.requestOptions = before.requestOptions
         /\ after.requestOptions.extra = before.requestOptions.extra
         /\ mu.m # "source" => after.requestOptions.property = before.requestOptions.property
         /\ mu.m # "category" => after.requestOptions.category = before.requestOptions.category

C18_Witness ==
    /\ ObjectPayload
    /\ probe.r1.ok
    /\ probe.m1 = Mutation("category", "Finance")
    /\ probe.item.request.extra = JStr("x")
    /\ probe.item.request.resolution = JStr("COUNTRY")
    /\ probe.item.request.requestOptions.property = JStr("")
    /\ probe.item.request.requestOptions.extra = JStr("y")
    /\ probe.r1.self.request.requestOptions.category = JNum(7)

-----------------------------------------------------------------------------
(* The entries returned, the queries sent, the prefix dropped (Spec).      *)

Succeeded == pc = "done" /\ result.kind = "Ok"

\* C13 (as stated): every entry a successful operation returns has value and
\* has_data lists of one length, whatever body the server sent.
C13_ParallelLists ==
    Succeeded =>
      \A i \in 1..Len(result.entries) :
         result.entries[i].value = result.entries[i].has_data

\* C14 (as stated): no explore request carries an empty comparisonItem list.
C14_NonEmptyQuery ==
    \A i \in 1..Len(sent) :
       sent[i].stage = "explore" => sent[i].req.query.comparisonItem # <<>>

\* the body without its first n characters, however many bytes each takes
CharStrip(body, n) ==
    IF n <= Len(body.pre)
    THEN [ok |-> TRUE, pre |-> SubSeq(body.pre, n + 1, Len(body.pre)), cut |-> 0,
          doc |-> body.doc]
    ELSE [ok |-> TRUE, pre |-> <<>>, cut |-> n - Len(body.pre), doc |-> body.doc]

\* a stage ended after run_with_retry returned a 200 response
Got200(stg) ==
    /\ pc = "done"
    /\ stage = stg
    /\ AllAnswered
    /\ Last(resps).status = 200

\* C16 (as stated): the body of a 200 fetch response loses its first 5 characters,
\* whatever they are, and when the rest is the {"default": ..} wrapper the
\* operation returns the entries of the body, as many and in the same order; the
\* explore body loses its first 4 characters in the same way.
C16_DropsCharacters ==
    /\ Got200("fetch") =>
          LET dec == DecodeData(CharStrip(Last(resps).body, QueryPrefix), SearchOf(op))
          IN result = IF dec.ok THEN OkData(Last(resps).body.doc.entries) ELSE JsonError
    /\ Got200("explore") =>
          LET dec == DecodeExplore(CharStrip(Last(resps).body, ExplorePrefix))
          IN IF dec.ok THEN explored = "failed" => result = Unavailable
             ELSE result = JsonError

-----------------------------------------------------------------------------
(* The retry request against the original (SpecHeaders).                   *)

\* C17: the retry request has the method, the URL with its parameters and the
\* headers of the original; its Cookie header is the cookie of the 429 response
\* when that has one, in place of the original's, and the original's otherwise.
C17_OnlyCookieReplaced ==
    Len(RunSent) = 2 =>
      LET a == RunSent[1].req
          b == RunSent[2].req
          sc == resps[1].setCookie
      IN /\ b.method = a.method
         /\ b.url = a.url /\ b.token = a.token /\ b.query = a.query /\ b.payload = a.payload
         /\ b.headers = a.headers
         /\ b.cookie = IF sc.present /\ sc.text THEN TextHeader(FirstSegment(sc.chars))
                        ELSE a.cookie

C17_Witness ==
    /\ Len(RunSent) = 2
    /\ RunSent[1].req.cookie = TextHeader(<<"o">>)
    /\ RunSent[1].req.method = "POST"
    /\ RunSent[1].req.headers = {<<"accept", "json">>, <<"dnt", "1">>}
    /\ resps[1].setCookie = TextHeader(<<"s", ";">>)
    /\ RunSent[2].req.cookie = TextHeader(<<"s">>)

-----------------------------------------------------------------------------
(* The fetch request and the decoding of the widgets list (Spec).          *)

\* C19: every fetch request goes to the endpoint of the operation's report type,
\* the descriptor selected has the id of that report type, the token parameter is
\* that descriptor's token, and the req parameter is its payload with the
\* operation's refinements written in: property and category for the time series;
\* resolution, property, category and the low-volume flag for the regions.
C19_FetchRequest ==
    \A i \in 1..Len(sent) :
       sent[i].stage = "fetch" =>
         LET r == sent[i].req
             p == r.payload
             s == selected.request
             region == op = "interest_by_region"
         IN /\ r.url = IF region THEN "widgetdata/comparedgeo" ELSE "widgetdata/multiline"
            /\ selected.id = IF region THEN "GEO_MAP" ELSE "TIMESERIES"
            /\ r.token = selected.token
            /\ p.kind = "obj"
            /\ p.extra = s.extra
            /\ p.requestOptions.kind = "obj"
            /\ p.requestOptions.extra = s.requestOptions.extra
            /\ p.requestOptions.property = JStr(SourceWire(args.source))
            /\ p.requestOptions.category = JNum(CategoryCode(args.category))
            /\ p.resolution = IF region THEN JStr(ResolutionWire(args.resolution))
                                ELSE s.resolution
            /\ p.includeLowSearchVolumeGeos =
                  IF region THEN JBool(args.include) ELSE s.includeLowSearchVolumeGeos

C19_Witness ==
    /\ op = "interest_by_region"
    /\ args.resolution = "City" /\ args.source = "News"
    /\ args.category = "Finance" /\ args.include
    /\ selected = RequestParameters("t1", "GEO_MAP", ObjWithOptions)
    /\ Len(sent) = 2
    /\ sent[2].stage = "fetch"
    /\ sent[2].req.token = "t1"
    /\ sent[2].req.payload.resolution = JStr("CITY")
    /\ sent[2].req.payload.requestOptions.property = JStr("news")
    /\ sent[2].req.payload.requestOptions.category = JNum(7)
    /\ sent[2].req.payload.includeLowSearchVolumeGeos = JBool(TRUE)

\* the explore stage ended on a 200 body that is a {"widgets": [..]} document
\* behind its prefix
ExploreJson ==
    /\ Got200("explore")
    /\ Strip(Last(resps).body, ExplorePrefix).ok
    /\ IsJson(Strip(Last(resps).body, ExplorePrefix))
    /\ Last(resps).body.doc.shape = "explore"

\* C20: when one element of the widgets list has no id, the explore stage ends in
\* a decode error and no fetch request is sent, whatever else the list holds; when
\* every element has an id and those with the wanted id lack a token or a
\* payload, they are passed over and the stage ends in "unavailable".
C20_WholeListDecoded ==
    ExploreJson =>
      LET raw == Last(resps).body.doc.widgets
      IN /\ (\E i \in 1..Len(raw) : ~raw[i].hasId)
               => (result = JsonError /\ explored = "failed" /\ ~FetchSent)
         /\ ((\A i \in 1..Len(raw) : raw[i].hasId) /\ NoDescriptor)
               => (result = Unavailable /\ ~FetchSent)

C20_Witness ==
    /\ ExploreJson
    /\ op = "interest_by_time"
    /\ Last(resps).body.doc.widgets = <<RawData("TIMESERIES", "t1", ObjWithOptions), RawNoId>>
    /\ result = JsonError
    /\ ~FetchSent

\* an element with the wanted id but no token is passed over
C20_Skipped ==
    /\ ExploreJson
    /\ op = "interest_by_time"
    /\ Last(resps).body.doc.widgets = <<RawNoToken("TIMESERIES", ObjPlain)>>
    /\ result = Unavailable

-----------------------------------------------------------------------------
(* Two operations at once on one client (SpecConc).                        *)

\* the payload a caller's fetch request must carry: its own descriptor with its
\* own refinements
OwnPayload(b, p) ==
    LET s == b.selected.request
        region == b.op = "interest_by_region"
    IN /\ p.extra = s.extra
       /\ p.requestOptions.extra = s.requestOptions.extra
       /\ p.requestOptions.property = JStr(SourceWire(b.args.source))
       /\ p.requestOptions.category = JNum(CategoryCode(b.args.category))
       /\ p.resolution = IF region THEN JStr(ResolutionWire(b.args.resolution)) ELSE s.resolution
       /\ p.includeLowSearchVolumeGeos =
             IF region THEN JBool(b.args.include) ELSE s.includeLowSearchVolumeGeos

\* the Cookie header a caller's new request may carry: none on the first request
\* of a stage, its own 429 response's cookie on the retry
OwnCookie(b) ==
    IF b.pc = "await2" /\ b.resps[1].setCookie.present /\ b.resps[1].setCookie.text
    THEN TextHeader(FirstSegment(b.resps[1].setCookie.chars))
    ELSE NoHeader

C15_Step ==
    /\ \A c, d \in Callers : (c # d /\ calls'[c] # calls[c]) => calls'[d] = calls[d]
    /\ \A c \in Callers :
          LET a == calls[c]
              b == calls'[c]
              new == Last(b.sent)
          IN /\ Len(b.sent) > Len(a.sent) =>
                   /\ Len(b.sent) = Len(a.sent) + 1
                   /\ new.req.cookie = OwnCookie(b)
                   /\ new.req.query = IF new.stage = "explore" THEN b.args.query ELSE NoQuery
                   /\ new.stage = "fetch" =>
                         /\ new.req.token = b.selected.token
                         /\ OwnPayload(b, new.req.payload)
             /\ (a.pc # "done" /\ b.pc = "done" /\ b.result.kind = "Ok") =>
                   b.result.entries = Last(b.resps).body.doc.entries

\* C15: in every interleaving of two operations on one client, a step of one
\* leaves the other as it was, every request a caller sends carries its own query
\* or its own descriptor's token and payload with its own refinements, a Cookie
\* header only on a retry and then the cookie of the caller's own 429 response,
\* and a successful caller returns the entries of its own last response.
C15_Isolated == [][C15_Step]_vars

\* both callers are retrying their fetch at once, each with its own cookie and
\* its own payload
C15_Witness ==
    /\ calls[1].pc = "await2" /\ calls[2].pc = "await2"
    /\ calls[1].stage = "fetch" /\ calls[2].stage = "fetch"
    /\ calls[1].op = "interest_by_region" /\ calls[2].op = "interest_by_region"
    /\ Last(calls[1].sent).req.cookie = TextHeader(<<"s">>)
    /\ Last(calls[2].sent).req.cookie = TextHeader(<<"s", "s">>)
    /\ Last(calls[1].sent).req.payload.resolution = JStr("CITY")
    /\ Last(calls[2].sent).req.payload.resolution = JStr("COUNTRY")


====
